---- MODULE Spec2Model ----
(***************************************************************************)
(* rPPG Pro: the signal-processing functions of signal.js and the metric   *)
(* layers of analysis.js, as a state machine of calls.                     *)
(*                                                                         *)
(* Every function of the two files is pure: a call reads its arguments and *)
(* returns a value.  A state holds one call: the function called (fn), its *)
(* arguments (arg), its position (pc: "call" before the body has run,      *)
(* "done" after) and the value returned (ret).  hist keeps the arguments   *)
(* of the earlier calls of a chain in which a result is fed back to the    *)
(* same function.                                                          *)
(*                                                                         *)
(* Numbers.  The code computes in IEEE doubles.  The model computes in     *)
(* integers and exact fractions: a comparison of two quotients is made by  *)
(* cross-multiplication, a decimal constant c is carried as 100*c or 10*c. *)
(* NaN is a value of its own (NaN below); every comparison with it is      *)
(* false, as in the code.                                                  *)
(***************************************************************************)
EXTENDS Integers, Sequences, FiniteSets, TLC

VARIABLES fn, arg, ret, pc, hist

vars == <<fn, arg, ret, pc, hist>>

\* No value returned yet.
None == [kind |-> "none"]

\* JavaScript's null.
Null == [kind |-> "null"]

(***************************************************************************)
(* Arithmetic helpers                                                      *)
(***************************************************************************)
Abs(x) == IF x < 0 THEN -x ELSE x

Min2(a, b) == IF a <= b THEN a ELSE b

Max2(a, b) == IF a >= b THEN a ELSE b

\* Math.floor(a / b) and Math.ceil(a / b) for integers a and b > 0.
FloorDiv(a, b) == a \div b

CeilDiv(a, b) == -((-a) \div b)

\* Math.round(a / b) for integers a >= 0 and b > 0 (halves round up).
RoundDiv(a, b) == (2 * a + b) \div (2 * b)

(***************************************************************************)
(* rejectOutliersIQR (signal.js)                                           *)
(***************************************************************************)
RECURSIVE InsertSorted(_, _)
InsertSorted(x, s) ==
    IF s = <<>> THEN <<x>>
    ELSE IF x <= Head(s) THEN <<x>> \o s
    ELSE <<Head(s)>> \o InsertSorted(x, Tail(s))

\* values.slice().sort((a, b) => a - b)
RECURSIVE SortAscending(_)
SortAscending(s) ==
    IF s = <<>> THEN <<>> ELSE InsertSorted(Head(s), SortAscending(Tail(s)))

\* sorted[Math.floor(sorted.length * 0.25)], 0-based in the code
Quartile1(sorted) == sorted[FloorDiv(Len(sorted), 4) + 1]

\* sorted[Math.floor(sorted.length * 0.75)]
Quartile3(sorted) == sorted[FloorDiv(3 * Len(sorted), 4) + 1]

\* v >= q1 - 1.5*iqr && v <= q3 + 1.5*iqr, doubled to stay in integers
WithinFences(v, q1, q3) ==
    /\ 2 * v >= 2 * q1 - 3 * (q3 - q1)
    /\ 2 * v <= 2 * q3 + 3 * (q3 - q1)

\* The filter with the sort left out: the quartiles are read by position
\* from the unsorted input.
RejectOutliersUnsorted(values) ==
    IF Len(values) < 4 THEN values
    ELSE LET q1 == Quartile1(values)
             q3 == Quartile3(values)
         IN  SelectSeq(values, LAMBDA v : WithinFences(v, q1, q3))

\* The filter with the comparison made strict.
RejectOutliersStrict(values) ==
    IF Len(values) < 4 THEN values
    ELSE LET sorted == SortAscending(values)
             q1     == Quartile1(sorted)
             q3     == Quartile3(sorted)
         IN  SelectSeq(values, LAMBDA v : /\ 2 * v > 2 * q1 - 3 * (q3 - q1)
                                          /\ 2 * v < 2 * q3 + 3 * (q3 - q1))

rejectOutliersIQR(values) ==
    IF Len(values) < 4 THEN values
    ELSE LET sorted == SortAscending(values)
             q1     == Quartile1(sorted)
             q3     == Quartile3(sorted)
         IN  SelectSeq(values, LAMBDA v : WithinFences(v, q1, q3))

\* Bounds of the outlier filter's inputs.
IQRMaxLen == 6

IQRMaxVal == 3

\* End-to-end scenario 4 of the specification.
Scenario4 == <<60, 62, 61, 63, 200, 59>>

IQRInputs ==
    UNION {[1..n -> 0..IQRMaxVal] : n \in 0..IQRMaxLen} \cup {Scenario4}

InitIQR ==
    /\ fn = "rejectOutliersIQR"
    /\ arg \in [values : IQRInputs]
    /\ ret = None
    /\ pc = "call"
    /\ hist = <<>>

CallRejectOutliersIQR ==
    /\ pc = "call"
    /\ fn = "rejectOutliersIQR"
    /\ ret' = [kind |-> "seq", v |-> rejectOutliersIQR(arg.values)]
    /\ hist' = Append(hist, arg.values)
    /\ pc' = "done"
    /\ UNCHANGED <<fn, arg>>

\* The caller passes the filtered series through the filter once more.
ReapplyRejectOutliersIQR ==
    /\ pc = "done"
    /\ fn = "rejectOutliersIQR"
    /\ Len(hist) < 2
    /\ arg' = [values |-> ret.v]
    /\ ret' = None
    /\ pc' = "call"
    /\ UNCHANGED <<fn, hist>>

NextIQR == CallRejectOutliersIQR \/ ReapplyRejectOutliersIQR

SpecIQR == InitIQR /\ [][NextIQR]_vars

(***************************************************************************)
(* Claims about rejectOutliersIQR                                          *)
(***************************************************************************)
RECURSIVE IsSubsequence(_, _)
IsSubsequence(a, b) ==
    IF a = <<>> THEN TRUE
    ELSE IF b = <<>> THEN FALSE
    ELSE IF Head(a) = Head(b) THEN IsSubsequence(Tail(a), Tail(b))
    ELSE IsSubsequence(a, Tail(b))

\* The value of rank k (0-based) of v, by counting, without sorting.
RankValue(v, k) ==
    CHOOSE x \in {v[i] : i \in 1..Len(v)} :
        /\ Cardinality({i \in 1..Len(v) : v[i] < x}) <= k
        /\ Cardinality({i \in 1..Len(v) : v[i] <= x}) > k

\* The positions of v within [Q1 - 1.5*IQR, Q3 + 1.5*IQR].
KeptPositions(v) ==
    LET q1 == RankValue(v, Len(v) \div 4)
        q3 == RankValue(v, (3 * Len(v)) \div 4)
    IN  {i \in 1..Len(v) : /\ 2 * v[i] >= 2 * q1 - 3 * (q3 - q1)
                           /\ 2 * v[i] <= 2 * q3 + 3 * (q3 - q1)}

\* out is v restricted to the positions of keep, in v's order.
IsRestriction(out, v, keep) ==
    /\ Len(out) = Cardinality(keep)
    /\ \A i \in keep : out[Cardinality({m \in keep : m < i}) + 1] = v[i]

IQRDone(k) ==
    /\ fn = "rejectOutliersIQR"
    /\ pc = "done"
    /\ Len(hist) = k

SameQuartiles(v, w) ==
    /\ Quartile1(SortAscending(v)) = Quartile1(SortAscending(w))
    /\ Quartile3(SortAscending(v)) = Quartile3(SortAscending(w))

\* C1, as claimed: for every input of length >= 4 the second application of
\* rejectOutliersIQR returns exactly what the first application returned.
C1_Idempotent ==
    (IQRDone(2) /\ Len(hist[1]) >= 4) => ret.v = hist[2]

\* C1, amended: for every input of length >= 4 the second application
\* returns a subsequence of the first application's result (it only ever
\* removes values), and returns exactly that result whenever it has fewer
\* than 4 values or the same Q1 and Q3 as the input.
C1_SecondPassOnlyRemoves ==
    (IQRDone(2) /\ Len(hist[1]) >= 4) =>
        /\ IsSubsequence(ret.v, hist[2])
        /\ (Len(hist[2]) < 4 \/ SameQuartiles(hist[1], hist[2])) => ret.v = hist[2]

\* The first pass removed a value, the quartiles stayed, the second pass
\* removed nothing.
C1_Witness ==
    /\ IQRDone(2)
    /\ Len(hist[1]) >= 4
    /\ Len(hist[2]) >= 4
    /\ hist[2] # hist[1]
    /\ SameQuartiles(hist[1], hist[2])
    /\ ret.v = hist[2]

NaN == -1

\* x > y and x < y of the code: false when either side is NaN.
Gt(x, y) == x # NaN /\ y # NaN /\ x > y

Lt(x, y) == x # NaN /\ y # NaN /\ x < y

\* A number returned, as the exact fraction num/den (den # 0).
Number(num, den) == [kind |-> "num", num |-> num, den |-> den]

\* function nextPow2(n) { let p = 1; while (p < n) p <<= 1; return p; }
RECURSIVE Pow2From(_, _)
Pow2From(p, n) == IF p < n THEN Pow2From(2 * p, n) ELSE p

nextPow2(n) == Pow2From(1, n)

\* The bins the estimators read: 0..floor(n/2).
Bins(n) == 0..(n \div 2)

\* Bounds of the estimators' inputs: signal length, power per bin, fps.
HRMaxLen == 7

HRMaxPow == 3

HRMaxFps == 4

\* The spectra that the window and the transform can produce for a signal of
\* len samples with powers up to maxPow.  The Hann weight is NaN for len = 1
\* (0/0), 0 for both samples of len = 2, (0, 1, 0) for len = 3 (a single
\* sample survives: a flat spectrum) and (0, 3/4, 3/4, 0) for len = 4
\* (pw[0] + pw[2] = 2*pw[1]); from len = 5 on every spectrum is admitted.
WindowedSpectra(len, maxPow) ==
    LET n == nextPow2(len)
    IN  IF len = 1 THEN {[i \in Bins(n) |-> NaN]}
        ELSE IF len \in {0, 2} THEN {[i \in Bins(n) |-> 0]}
        ELSE IF len = 3 THEN {[i \in Bins(n) |-> c] : c \in 0..maxPow}
        ELSE IF len = 4 THEN {p \in [Bins(n) -> 0..maxPow] : p[0] + p[2] = 2 * p[1]}
        ELSE [Bins(n) -> 0..maxPow]

\* The max scan of both estimators, from bin i while i <= hi2/2: the first
\* bin whose power is strictly above every earlier one (and above 0) wins.
\* The bin a scan of pw[i..last] from -Infinity would end on, with its
\* power, as <<power, bin>>: the first bin of the largest power, NaN powers
\* passed over (p > maxMag is false for them); <<>> when every power is NaN
\* or the range is empty.  A range is its lower half and its upper half,
\* and the upper half wins only with a strictly larger power.
RECURSIVE ScanBins(_, _, _)
ScanBins(pw, i, last) ==
    IF i > last THEN <<>>
    ELSE IF i = last THEN (IF pw[i] = NaN THEN <<>> ELSE <<pw[i], i>>)
    ELSE LET lower == ScanBins(pw, i, (i + last) \div 2)
             upper == ScanBins(pw, (i + last) \div 2 + 1, last)
         IN  IF lower = <<>> THEN upper
             ELSE IF upper = <<>> THEN lower
             ELSE IF upper[1] > lower[1] THEN upper
             ELSE lower

ScanPeak(pw, i, hi2, maxMag, peakBin) ==
    IF 2 * i > hi2 THEN peakBin
    ELSE LET found == ScanBins(pw, i, hi2 \div 2)
         IN  IF found # <<>> /\ Gt(found[1], maxMag) THEN found[2] ELSE peakBin

\* fftHeartRate: minBin, maxBin and the scan (0.67 Hz .. 3.33 Hz).
FFTMinBin(len, fps) == FloorDiv(67 * nextPow2(len), 100 * fps)

FFTMaxBin(len, fps) == CeilDiv(333 * nextPow2(len), 100 * fps)

FFTPeakBin(len, fps, pw) ==
    ScanPeak(pw, FFTMinBin(len, fps),
             Min2(2 * FFTMaxBin(len, fps), nextPow2(len)), 0, FFTMinBin(len, fps))

\* (refinedBin * fps / n) * 60 with refinedBin = k + dnum/dden.
RefinedRate(k, dnum, dden, fps, n) == Number((k * dden + dnum) * fps * 60, dden * n)

\* (peakBin * fps / n) * 60
BinRate(k, fps, n) == Number(k * fps * 60, n)

fftHeartRate(len, fps, pw) ==
    LET n == nextPow2(len)
        k == FFTPeakBin(len, fps, pw)
    IN  IF k > 0 /\ 2 * k < n
        THEN LET a    == pw[k - 1]
                 b    == pw[k]
                 c    == pw[k + 1]
                 dnum == a - c
                 dden == 2 * (a - 2 * b + c)
             IN  \* dden = 0: delta is an infinity or NaN, and 0 is added
                 IF dden = 0 THEN BinRate(k, fps, n)
                 ELSE RefinedRate(k, dnum, dden, fps, n)
        ELSE BinRate(k, fps, n)

\* segLen as the largest power of two within the signal.
WelchSegLenPowerOfTwo(len) == IF nextPow2(len) > len THEN nextPow2(len) \div 2 ELSE len

\* welchFFTHeartRate: segmentation.
WelchSegLen(len) == Min2(nextPow2(len), len)

WelchStep(len) == WelchSegLen(len) - FloorDiv(3 * WelchSegLen(len), 4)

\* Math.floor((signal.length - segLen) / step) + 1; 0/0 is NaN
WelchNSegs(len) ==
    IF WelchStep(len) = 0 THEN NaN
    ELSE FloorDiv(len - WelchSegLen(len), WelchStep(len)) + 1

\* The averaged spectrum: no segment is accumulated when nSegs is NaN (the
\* array keeps its zeros); the segment at offset 0 spans the whole signal,
\* so its spectrum is pw.
WelchAvgSpectrum(len, pw) ==
    IF WelchNSegs(len) = NaN THEN [i \in Bins(nextPow2(WelchSegLen(len))) |-> 0]
    ELSE pw

\* minBin, and 2*maxBin (n/2 is 0.5 for n = 1)  (0.7 Hz .. 3.33 Hz)
WelchMinBin(len, fps) == Max2(1, FloorDiv(7 * nextPow2(WelchSegLen(len)), 10 * fps))

WelchMaxBin2(len, fps) ==
    Min2(2 * CeilDiv(333 * nextPow2(WelchSegLen(len)), 100 * fps), nextPow2(WelchSegLen(len)))

WelchPeakBin(len, fps, pw) ==
    ScanPeak(WelchAvgSpectrum(len, pw), WelchMinBin(len, fps),
             WelchMaxBin2(len, fps), 0, WelchMinBin(len, fps))

welchFFTHeartRate(len, fps, pw) ==
    IF Lt(WelchNSegs(len), 1) THEN fftHeartRate(len, fps, pw)
    ELSE LET n       == nextPow2(WelchSegLen(len))
             avg     == WelchAvgSpectrum(len, pw)
             minBin  == WelchMinBin(len, fps)
             maxBin2 == WelchMaxBin2(len, fps)
             peakBin == WelchPeakBin(len, fps, pw)
         IN  IF peakBin > minBin /\ 2 * peakBin < maxBin2
             THEN LET a     == avg[peakBin - 1]
                      b     == avg[peakBin]
                      c     == avg[peakBin + 1]
                      denom == 2 * (a - 2 * b + c)
                  IN  IF denom # 0 /\ Abs(a - c) < Abs(denom)
                      THEN RefinedRate(peakBin, a - c, denom, fps, n)
                      ELSE BinRate(peakBin, fps, n)
             ELSE BinRate(peakBin, fps, n)

HRInputs ==
    UNION {[len : {l}, fps : 1..HRMaxFps, pw : WindowedSpectra(l, HRMaxPow)] :
           l \in 0..HRMaxLen}

InitHR ==
    /\ fn \in {"fftHeartRate", "welchFFTHeartRate"}
    /\ arg \in HRInputs
    /\ ret = None
    /\ pc = "call"
    /\ hist = <<>>

CallFftHeartRate ==
    /\ pc = "call"
    /\ fn = "fftHeartRate"
    /\ ret' = fftHeartRate(arg.len, arg.fps, arg.pw)
    /\ pc' = "done"
    /\ UNCHANGED <<fn, arg, hist>>

CallWelchFFTHeartRate ==
    /\ pc = "call"
    /\ fn = "welchFFTHeartRate"
    /\ ret' = welchFFTHeartRate(arg.len, arg.fps, arg.pw)
    /\ pc' = "done"
    /\ UNCHANGED <<fn, arg, hist>>

NextHR == CallFftHeartRate \/ CallWelchFFTHeartRate

SpecHR == InitHR /\ [][NextHR]_vars

(***************************************************************************)
(* Claims about the heart-rate estimators                                  *)
(***************************************************************************)
\* The bin a returned rate stands for is within one bin of k, strictly:
\* |rate*n/(60*fps) - k| < 1.
WithinOneBin(rate, k, fps, n) ==
    Abs(rate.num * n - k * fps * 60 * rate.den) < Abs(fps * 60 * rate.den)

\* C2, as claimed: in both estimators the refined bin lies strictly between
\* peakBin - 1 and peakBin + 1, for every power spectrum.
C2_RefinedWithinOneBin ==
    /\ (fn = "fftHeartRate" /\ pc = "done") =>
           WithinOneBin(ret, FFTPeakBin(arg.len, arg.fps, arg.pw), arg.fps,
                        nextPow2(arg.len))
    /\ (fn = "welchFFTHeartRate" /\ pc = "done") =>
           WithinOneBin(ret, WelchPeakBin(arg.len, arg.fps, arg.pw), arg.fps,
                        nextPow2(arg.len))

\* C3, as claimed: for a signal of fewer than 3 samples both estimators
\* return the absent result, never a number.
C3_ShortSignalAbsent ==
    (fn \in {"fftHeartRate", "welchFFTHeartRate"} /\ pc = "done" /\ arg.len < 3) =>
        ret = Null

(***************************************************************************)
(* findPeaksAdaptive (signal.js)                                           *)
(***************************************************************************)
\* signal[i] of the code (0-based).
At(signal, i) == signal[i + 1]

RECURSIVE SumRange(_, _, _)
\* The sum of signal[j] for start <= j < end.
SumRange(signal, start, end) ==
    IF start >= end THEN 0
    ELSE IF start + 1 = end THEN At(signal, start)
    ELSE SumRange(signal, start, (start + end) \div 2)
         + SumRange(signal, (start + end) \div 2, end)

RECURSIVE SumSqDev(_, _, _, _, _)
\* The sum of (cnt*signal[j] - sum)^2 for start <= j < end:
\* cnt^2 times the code's variance accumulator.
SumSqDev(signal, start, end, cnt, sum) ==
    IF start >= end THEN 0
    ELSE (cnt * At(signal, start) - sum) * (cnt * At(signal, start) - sum)
         + SumSqDev(signal, start + 1, end, cnt, sum)

\* The 5-point local-maximum test.
IsLocalMax5(signal, i) ==
    /\ At(signal, i) > At(signal, i - 1)
    /\ At(signal, i) > At(signal, i + 1)
    /\ At(signal, i) > At(signal, i - 2)
    /\ At(signal, i) > At(signal, i + 2)

\* signal[i] > mean + 0.3 * std over [i - windowSize, i + windowSize):
\* with d = cnt*signal[i] - sum, d > 0 and 100*cnt*d^2 > 9*cnt^2*variance.
AboveAdaptiveThreshold(signal, i, windowSize) ==
    LET start == Max2(0, i - windowSize)
        end   == Min2(Len(signal), i + windowSize)
        cnt   == end - start
        sum   == SumRange(signal, start, end)
        d     == cnt * At(signal, i) - sum
    IN  /\ d > 0
        /\ 100 * cnt * d * d > 9 * SumSqDev(signal, start, end, cnt, sum)

\* Math.floor(fps * 0.35), which is floor(35*fps/100) for every whole fps the
\* model draws (in doubles the two differ first at fps = 180).
MinDist(fps) == FloorDiv(35 * fps, 100)

RECURSIVE PeakLoop(_, _, _, _)
\* The loop of findPeaksAdaptive from index i, peaks accepted so far.
PeakLoop(signal, fps, i, peaks) ==
    IF i >= Len(signal) - 2 THEN peaks
    ELSE IF /\ IsLocalMax5(signal, i)
            /\ AboveAdaptiveThreshold(signal, i, 2 * fps)
            /\ (Len(peaks) = 0 \/ i - peaks[Len(peaks)] >= MinDist(fps))
         THEN PeakLoop(signal, fps, i + 1, Append(peaks, i))
         ELSE PeakLoop(signal, fps, i + 1, peaks)

findPeaksAdaptive(signal, fps) == PeakLoop(signal, fps, 2, <<>>)

\* Bounds of the beat detector's inputs.
PeakMaxLen == 8

PeakMaxVal == 2

PeakMaxFps == 10

\* Two equal pulses 10 samples apart, for 30 frames per second.
PulsesAt30 == [i \in 1..15 |-> IF i \in {3, 13} THEN 5 ELSE 0]

PeakInputs ==
    [signal : UNION {[1..n -> 0..PeakMaxVal] : n \in 0..PeakMaxLen}, fps : 1..PeakMaxFps]
        \cup {[signal |-> PulsesAt30, fps |-> 30]}

InitPeaks ==
    /\ fn = "findPeaksAdaptive"
    /\ arg \in PeakInputs
    /\ ret = None
    /\ pc = "call"
    /\ hist = <<>>

CallFindPeaksAdaptive ==
    /\ pc = "call"
    /\ fn = "findPeaksAdaptive"
    /\ ret' = [kind |-> "seq", v |-> findPeaksAdaptive(arg.signal, arg.fps)]
    /\ pc' = "done"
    /\ UNCHANGED <<fn, arg, hist>>

NextPeaks == CallFindPeaksAdaptive

SpecPeaks == InitPeaks /\ [][NextPeaks]_vars

(***************************************************************************)
(* Claims about findPeaksAdaptive                                          *)
(***************************************************************************)
\* C4, as claimed: every returned beat index is strictly greater than the
\* one before it and at least 0.35*fps samples after it.
C4_MinBeatSpacing ==
    (fn = "findPeaksAdaptive" /\ pc = "done") =>
        \A k \in 1..(Len(ret.v) - 1) :
            /\ ret.v[k + 1] > ret.v[k]
            /\ 100 * (ret.v[k + 1] - ret.v[k]) >= 35 * arg.fps

(***************************************************************************)
(* fusedHeartRate (signal.js)                                              *)
(*                                                                         *)
(* The fusion step proper, lines 469-483.  Its inputs are the values the   *)
(* two paths hand it: the Welch estimates posHR and chromHR, the scores of *)
(* posQuality and chromQuality, and the two filtered waveforms, which are  *)
(* passed through untouched and are named here by their path.              *)
(***************************************************************************)
\* Math.min(99, ...) of assessSignalQuality: the largest score.
MaxScore == 99

\* The usable threshold of assessSignalQuality.
UsableAbove == 25

\* The QualityScore object of a path with the given score.
Quality(path, score) == [path |-> path, score |-> score, usable |-> score > UsableAbove]

\* The fusion with the tie on the scores given to CHROM.
FusedTieToChrom(posHR, chromHR, posScore, chromScore) ==
    LET totalQ == posScore + chromScore
    IN  IF totalQ = 0
        THEN [kind |-> "fused", hr |-> Number(posHR, 1), filtered |-> "posFiltered",
              quality |-> Quality("pos", posScore)]
        ELSE [kind |-> "fused",
              hr |-> Number(posHR * posScore + chromHR * chromScore, totalQ),
              filtered |-> IF posScore > chromScore THEN "posFiltered" ELSE "chromFiltered",
              quality |-> IF posScore > chromScore THEN Quality("pos", posScore)
                          ELSE Quality("chrom", chromScore)]

fusedHeartRate(posHR, chromHR, posScore, chromScore) ==
    LET totalQ == posScore + chromScore
    IN  IF totalQ = 0
        THEN [kind |-> "fused", hr |-> Number(posHR, 1), filtered |-> "posFiltered",
              quality |-> Quality("pos", posScore)]
        ELSE [kind |-> "fused",
              hr |-> Number(posHR * posScore + chromHR * chromScore, totalQ),
              filtered |-> IF posScore >= chromScore THEN "posFiltered" ELSE "chromFiltered",
              quality |-> IF posScore >= chromScore THEN Quality("pos", posScore)
                          ELSE Quality("chrom", chromScore)]

\* Bound of the two paths' heart-rate estimates (in whole units).
FusedMaxHR == 3

InitFused ==
    /\ fn = "fusedHeartRate"
    /\ arg \in [posHR : 0..FusedMaxHR, chromHR : 0..FusedMaxHR,
                posScore : 0..MaxScore, chromScore : 0..MaxScore]
    /\ ret = None
    /\ pc = "call"
    /\ hist = <<>>

CallFusedHeartRate ==
    /\ pc = "call"
    /\ fn = "fusedHeartRate"
    /\ ret' = fusedHeartRate(arg.posHR, arg.chromHR, arg.posScore, arg.chromScore)
    /\ pc' = "done"
    /\ UNCHANGED <<fn, arg, hist>>

NextFused == CallFusedHeartRate

SpecFused == InitFused /\ [][NextFused]_vars

(***************************************************************************)
(* Claims about fusedHeartRate                                             *)
(***************************************************************************)
\* C5: with both scores 0 the result is the POS path's HR, waveform and
\* QualityScore; otherwise hr is the score-weighted mean of the two
\* estimates and the waveform and QualityScore are those of the path with
\* the higher score, POS on a tie; so the surfaced score is the larger of
\* the two and hr lies between the two estimates.
C5_FusionPolicy ==
    (fn = "fusedHeartRate" /\ pc = "done") =>
        LET qp == arg.posScore
            qc == arg.chromScore
            lo == Min2(arg.posHR, arg.chromHR)
            hi == Max2(arg.posHR, arg.chromHR)
        IN  /\ (qp = 0 /\ qc = 0) =>
                   /\ ret.hr.num = arg.posHR * ret.hr.den
                   /\ ret.filtered = "posFiltered"
                   /\ ret.quality = Quality("pos", qp)
            /\ (qp # 0 \/ qc # 0) =>
                   /\ ret.hr.num * (qp + qc) = (arg.posHR * qp + arg.chromHR * qc) * ret.hr.den
                   /\ (qp > qc \/ qp = qc) =>
                          ret.filtered = "posFiltered" /\ ret.quality = Quality("pos", qp)
                   /\ qp < qc =>
                          ret.filtered = "chromFiltered" /\ ret.quality = Quality("chrom", qc)
            /\ ret.quality.score = Max2(qp, qc)
            /\ ret.hr.den > 0
            /\ lo * ret.hr.den <= ret.hr.num
            /\ ret.hr.num <= hi * ret.hr.den

\* Equal non-zero scores, different estimates: POS is surfaced and hr is
\* strictly between the two estimates.
C5_Witness ==
    /\ fn = "fusedHeartRate"
    /\ pc = "done"
    /\ arg.posScore = arg.chromScore
    /\ arg.posScore > 0
    /\ arg.posHR < arg.chromHR
    /\ ret.filtered = "posFiltered"
    /\ arg.posHR * ret.hr.den < ret.hr.num
    /\ ret.hr.num < arg.chromHR * ret.hr.den

(***************************************************************************)
(* calculateHRVMetrics (analysis.js)                                       *)
(***************************************************************************)
RECURSIVE SumSeq(_)
SumSeq(s) == IF s = <<>> THEN 0 ELSE Head(s) + SumSeq(Tail(s))

\* Whether r + 1/2 <= sqrt(num / den), that is (2r + 1)^2 * den <= 4 * num.
RoundsAbove(r, num, den) == 2 * r + 1 <= ((4 * num) \div den) \div (2 * r + 1)

\* Some r that does not round above, found by doubling.
RECURSIVE RoundSqrtCeiling(_, _, _)
RoundSqrtCeiling(r, num, den) ==
    IF RoundsAbove(r, num, den) THEN RoundSqrtCeiling(2 * r + 1, num, den) ELSE r

\* The least r in lo..hi that does not round above (hi does not).
RECURSIVE RoundSqrtFrom(_, _, _, _)
RoundSqrtFrom(lo, hi, num, den) ==
    IF lo >= hi THEN hi
    ELSE IF RoundsAbove((lo + hi) \div 2, num, den)
    THEN RoundSqrtFrom((lo + hi) \div 2 + 1, hi, num, den)
    ELSE RoundSqrtFrom(lo, (lo + hi) \div 2, num, den)

\* Math.round(Math.sqrt(num / den)) for num >= 0, den > 0: the r with
\* r - 1/2 <= sqrt(num/den) < r + 1/2.
RoundSqrt(num, den) == RoundSqrtFrom(0, RoundSqrtCeiling(0, num, den), num, den)

RECURSIVE Gcd(_, _)
Gcd(a, b) == IF b = 0 THEN a ELSE Gcd(b, a % b)

\* Math.round(100 * Math.sqrt(num / den)) for num >= 0, den > 0, the
\* fraction in lowest terms.
RoundSqrtTimes100(num, den) ==
    LET g == Gcd(num, den) IN RoundSqrt(10000 * (num \div g), den \div g)

\* n^2 times the sum of (v - mean)^2
SqDevTimesN2(rr) ==
    LET n == Len(rr)
        s == SumSeq(rr)
    IN  SumSeq([i \in 1..n |-> (n * rr[i] - s) * (n * rr[i] - s)])

\* sumSqDiff: the sum of the squared successive differences
SumSqDiff(rr) ==
    SumSeq([i \in 1..(Len(rr) - 1) |-> (rr[i + 1] - rr[i]) * (rr[i + 1] - rr[i])])

\* nn50 counting the differences with |delta| >= 50.
NN50AtLeast(rr) == Cardinality({i \in 1..(Len(rr) - 1) : Abs(rr[i + 1] - rr[i]) >= 50})

\* nn50: the successive differences with |delta| > 50
NN50(rr) == Cardinality({i \in 1..(Len(rr) - 1) : Abs(rr[i + 1] - rr[i]) > 50})

\* The minimum number of intervals.
MinIntervals == 3

\* The result carries pnn50 in tenths (pnn50x10) and lfHfRatio in
\* hundredths (lfHfx100), as the code rounds them.
calculateHRVMetrics(rr) ==
    IF Len(rr) < MinIntervals THEN Null
    ELSE LET n == Len(rr)
             w == SqDevTimesN2(rr)
             d == SumSqDiff(rr)
         IN  [kind     |-> "hrv",
              sdnn     |-> RoundSqrt(w, n * n * n),
              rmssd    |-> RoundSqrt(d, n - 1),
              pnn50x10 |-> RoundDiv(NN50(rr) * 1000, n - 1),
              lfHfx100 |-> IF d > 0 THEN RoundSqrtTimes100(w * (n - 1), n * n * n * d)
                           ELSE 100,
              meanRR   |-> RoundDiv(SumSeq(rr), n)]

\* Bounds of the R-R inputs: length, and intervals RRBase + k*RRStep ms.
HRVMaxLen == 4

HRVMaxK == 3

RRBase == 800

RRStep == 25

HRVInputs ==
    [rr : UNION {[1..n -> {RRBase + k * RRStep : k \in 0..HRVMaxK}] : n \in 0..HRVMaxLen}]

InitHRV ==
    /\ fn = "calculateHRVMetrics"
    /\ arg \in HRVInputs
    /\ ret = None
    /\ pc = "call"
    /\ hist = <<>>

CallCalculateHRVMetrics ==
    /\ pc = "call"
    /\ fn = "calculateHRVMetrics"
    /\ ret' = calculateHRVMetrics(arg.rr)
    /\ pc' = "done"
    /\ UNCHANGED <<fn, arg, hist>>

(***************************************************************************)
(* estimateBreathingRate (analysis.js)                                     *)
(***************************************************************************)
\* The minimum number of samples of estimateBreathingRate and
\* pulseHarmonicAnalysis.
MinSamples == 90

\* minBin and maxBin of the respiratory band (0.15 Hz .. 0.5 Hz).
BreathMinBin(len, fps) == FloorDiv(15 * nextPow2(len), 100 * fps)

BreathMaxBin(len, fps) == CeilDiv(nextPow2(len), 2 * fps)

BreathPeakBin(len, fps, pw) ==
    ScanPeak(pw, Max2(1, BreathMinBin(len, fps)),
             Min2(2 * BreathMaxBin(len, fps), nextPow2(len)), 0, BreathMinBin(len, fps))

\* estimateBreathingRate without the plausibility test of its last line.
BreathingRateUnchecked(len, fps, pw) ==
    IF len < MinSamples THEN Null
    ELSE Number(RoundDiv(BreathPeakBin(len, fps, pw) * fps * 60, nextPow2(len)), 1)

\* estimateBreathingRate without its minimum length.
BreathingRateAnyLength(len, fps, pw) ==
    LET n   == nextPow2(len)
        bpm == BreathPeakBin(len, fps, pw) * fps * 60
    IN  IF bpm >= 8 * n /\ bpm <= 35 * n THEN Number(RoundDiv(bpm, n), 1) ELSE Null

estimateBreathingRate(len, fps, pw) ==
    IF len < MinSamples THEN Null
    ELSE LET n   == nextPow2(len)
             \* breathsPerMin = bpm / n
             bpm == BreathPeakBin(len, fps, pw) * fps * 60
         IN  IF bpm >= 8 * n /\ bpm <= 35 * n THEN Number(RoundDiv(bpm, n), 1)
             ELSE Null

\* Bounds of the breathing inputs: signal length, fps, power of the spike.
BreathMaxLen == 92

BreathMaxFps == 30

BreathMaxPow == 2

\* A flat spectrum of power ground with one bin raised to ground + p.
SpikeSpectrum(n, ground, b, p) ==
    [i \in Bins(n) |-> IF i = b THEN ground + p ELSE ground]

\* The spectra drawn for a signal of len samples.  A signal shorter than
\* MinSamples is returned for before the transform: one spectrum stands
\* for all.
BreathSpectra(len) ==
    IF len < MinSamples THEN {[i \in Bins(nextPow2(len)) |-> 0]}
    ELSE {SpikeSpectrum(nextPow2(len), g, b, p) :
              g \in 0..1, b \in Bins(nextPow2(len)), p \in 0..BreathMaxPow}

BreathInputs ==
    UNION {[len : {l}, fps : 1..BreathMaxFps, pw : BreathSpectra(l)] :
           l \in 0..BreathMaxLen}

InitBreath ==
    /\ fn = "estimateBreathingRate"
    /\ arg \in BreathInputs
    /\ ret = None
    /\ pc = "call"
    /\ hist = <<>>

CallEstimateBreathingRate ==
    /\ pc = "call"
    /\ fn = "estimateBreathingRate"
    /\ ret' = estimateBreathingRate(arg.len, arg.fps, arg.pw)
    /\ pc' = "done"
    /\ UNCHANGED <<fn, arg, hist>>

NextBreath == CallEstimateBreathingRate

SpecBreath == InitBreath /\ [][NextBreath]_vars

(***************************************************************************)
(* Claims about estimateBreathingRate                                      *)
(***************************************************************************)
\* C10: for every signal of >= 90 samples and every fps the result is
\* absent or a whole number of breaths per minute within 8..35, equal to
\* the rounded rate of the peak bin.
C10_BreathingPlausible ==
    (fn = "estimateBreathingRate" /\ pc = "done" /\ arg.len >= 90) =>
        \/ ret = Null
        \/ /\ ret.kind = "num"
           /\ ret.den = 1
           /\ ret.num \in 8..35
           /\ LET k == BreathPeakBin(arg.len, arg.fps, arg.pw)
                  n == nextPow2(arg.len)
              IN  /\ 2 * Abs(ret.num * n - k * arg.fps * 60) <= n
                  /\ 8 * n <= k * arg.fps * 60
                  /\ k * arg.fps * 60 <= 35 * n

\* The band holds no power, the initial peak bin is bin 0 and is kept, and
\* the result is absent.
C10_WitnessBinZero ==
    /\ fn = "estimateBreathingRate"
    /\ pc = "done"
    /\ arg.len >= 90
    /\ BreathMinBin(arg.len, arg.fps) = 0
    /\ BreathPeakBin(arg.len, arg.fps, arg.pw) = 0
    /\ ret = Null

(***************************************************************************)
(* pulseHarmonicAnalysis (analysis.js)                                     *)
(*                                                                         *)
(* The signal enters as its length and the magnitude spectrum mag of its   *)
(* windowed samples: mag[i] = sqrt(re[i]^2 + im[i]^2), bins 0..n/2.        *)
(* A percentage is the fraction 100*amplitude/totalEnergy; the expected    *)
(* ranges are carried in tenths of a percent and the multipliers in        *)
(* hundredths, so that p > max*m reads 100000*amp > max10*m100*total.      *)
(***************************************************************************)
Harmonics == 0..10

\* expectedRanges, strict mode: min and max in tenths of a percent (C0..C10)
StrictMin10 == <<300, 150, 100, 60, 30, 20, 10, 5, 3, 2, 1>>

StrictMax10 == <<450, 250, 180, 120, 80, 60, 50, 40, 30, 20, 20>>

\* expectedRanges, normal mode
NormalMin10 == <<250, 120, 70, 40, 20, 10, 5, 3, 2, 1, 1>>

NormalMax10 == <<550, 280, 200, 140, 100, 80, 60, 50, 40, 30, 30>>

RangeMin10(strict, h) == IF strict THEN StrictMin10[h + 1] ELSE NormalMin10[h + 1]

RangeMax10(strict, h) == IF strict THEN StrictMax10[h + 1] ELSE NormalMax10[h + 1]

\* overMult with the two modes exchanged.
OverMultExchanged(strict) == IF strict THEN 130 ELSE 110

\* overMult, weakMult, defMult, cExcessMult, in hundredths
OverMult100(strict) == IF strict THEN 110 ELSE 130

WeakMult100(strict) == IF strict THEN 80 ELSE 50

DefMult100(strict) == IF strict THEN 80 ELSE 60

ExcessMult100(strict) == IF strict THEN 105 ELSE 120

\* percentage > t*m, >= t*m, < t*m, <= t*m for percentage = 100*amp/total,
\* t = t10/10 and m = m100/100
PctGt(amp, total, t10, m100) == 100000 * amp > t10 * m100 * total

PctGe(amp, total, t10, m100) == 100000 * amp >= t10 * m100 * total

PctLt(amp, total, t10, m100) == 100000 * amp < t10 * m100 * total

PctLe(amp, total, t10, m100) == 100000 * amp <= t10 * m100 * total

\* hrMinBin, hrMaxBin (0.8 Hz .. 2.5 Hz) and the fundamental bin
HarmMinBin(len, fps) == Max2(1, FloorDiv(8 * nextPow2(len), 10 * fps))

HarmMaxBin(len, fps) == Min2(CeilDiv(5 * nextPow2(len), 2 * fps), nextPow2(len) \div 2)

FundBin(len, fps, mag) ==
    ScanPeak(mag, HarmMinBin(len, fps), 2 * HarmMaxBin(len, fps), 0, HarmMinBin(len, fps))

\* Math.round(fundBin * (h === 0 ? 1 : (h + 1)))
TargetBin(fundBin, h) == fundBin * (IF h = 0 THEN 1 ELSE h + 1)

RECURSIVE WindowMax(_, _, _, _)
\* The largest magnitude over the bins i..searchEnd, not below peakMag.
WindowMax(mag, i, searchEnd, peakMag) ==
    IF i > searchEnd THEN peakMag
    ELSE WindowMax(mag, i + 1, searchEnd, IF mag[i] > peakMag THEN mag[i] ELSE peakMag)

\* amplitude of harmonic h: the peak within +-2 bins of its target bin
Amplitude(n, fundBin, mag, h) ==
    WindowMax(mag, Max2(1, TargetBin(fundBin, h) - 2),
              Min2(n \div 2, TargetBin(fundBin, h) + 2), 0)

RECURSIVE AmplitudesFrom(_, _, _, _)
\* The amplitudes of the harmonics h..10, in order.
AmplitudesFrom(n, fundBin, mag, h) ==
    IF h > 10 THEN <<>>
    ELSE <<Amplitude(n, fundBin, mag, h)>> \o AmplitudesFrom(n, fundBin, mag, h + 1)

\* The status cascade of one harmonic.  The code's tags are pian-kang
\* ("excess"), zheng-chang ("normal"), pian-ruo ("weak"), bu-zu
\* ("deficient") and pian-gao ("elevated").
HarmonicStatus(amp, total, min10, max10, over100, weak100) ==
    IF PctGt(amp, total, max10, over100) THEN "excess"
    ELSE IF PctGe(amp, total, min10, 100) /\ PctLe(amp, total, max10, 100) THEN "normal"
    ELSE IF PctGe(amp, total, min10, weak100) /\ PctLt(amp, total, min10, 100) THEN "weak"
    ELSE IF PctLt(amp, total, min10, weak100) THEN "deficient"
    ELSE "elevated"

RECURSIVE StatusesFrom(_, _, _, _)
\* The statuses of the harmonics h..10, in order (amps[h + 1] is C_h).
StatusesFrom(amps, total, strict, h) ==
    IF h > 10 THEN <<>>
    ELSE <<HarmonicStatus(amps[h + 1], total, RangeMin10(strict, h), RangeMax10(strict, h),
                          OverMult100(strict), WeakMult100(strict))>>
         \o StatusesFrom(amps, total, strict, h + 1)

\* healthyOrder: C1 > C2 > C3 > C4 (percentages share their denominator)
HealthyOrder(amps) == amps[2] > amps[3] /\ amps[3] > amps[4] /\ amps[4] > amps[5]

\* The rules of the constitution cascade; amps[h + 1] is the amplitude of C_h.
RuleA(amps, total, strict) ==
    /\ PctLt(amps[1], total, RangeMin10(strict, 0), 100)
    /\ PctLt(amps[4], total, RangeMin10(strict, 3), 100)

RuleB(amps, total, strict) ==
    PctGt(amps[2], total, RangeMax10(strict, 1), ExcessMult100(strict))

RuleC(amps, total, strict) ==
    PctLt(amps[3], total, RangeMin10(strict, 2), DefMult100(strict))

RuleD(amps, total, strict) ==
    PctLt(amps[4], total, RangeMin10(strict, 3), DefMult100(strict))

RuleE(amps, total, strict) ==
    PctLt(amps[5], total, RangeMin10(strict, 4), DefMult100(strict))

RuleF(amps, total, strict, statuses) ==
    /\ HealthyOrder(amps)
    /\ PctGe(amps[1], total, RangeMin10(strict, 0), 100)
    /\ (~strict \/ \A i \in 1..11 : statuses[i] = "normal")

\* The cascade with the liver rule tried first.
ConstitutionLiverFirst(amps, total, strict, statuses) ==
    IF RuleB(amps, total, strict) THEN "ganQiPianWang"
    ELSE IF RuleA(amps, total, strict) THEN "xinPiLiangXu"
    ELSE IF RuleC(amps, total, strict) THEN "shenQiBuZu"
    ELSE IF RuleD(amps, total, strict) THEN "piQiXuRuo"
    ELSE IF RuleE(amps, total, strict) THEN "feiQiBuZu"
    ELSE IF RuleF(amps, total, strict, statuses) THEN "qiXuePingHeng"
    ELSE "lueYouPianCha"

\* The constitution cascade.  The code's labels are xin-pi-liang-xu (a),
\* gan-qi-pian-wang (b), shen-qi-bu-zu (c), pi-qi-xu-ruo (d),
\* fei-qi-bu-zu (e), qi-xue-ping-heng (f) and lue-you-pian-cha (g).
Constitution(amps, total, strict, statuses) ==
    IF RuleA(amps, total, strict) THEN "xinPiLiangXu"
    ELSE IF RuleB(amps, total, strict) THEN "ganQiPianWang"
    ELSE IF RuleC(amps, total, strict) THEN "shenQiBuZu"
    ELSE IF RuleD(amps, total, strict) THEN "piQiXuRuo"
    ELSE IF RuleE(amps, total, strict) THEN "feiQiBuZu"
    ELSE IF RuleF(amps, total, strict, statuses) THEN "qiXuePingHeng"
    ELSE "lueYouPianCha"

\* The profile returned for the amplitudes amps with sum total > 0.
Profile(amps, total, strict, statuses, fundBin) ==
    [kind         |-> "profile",
     harmonics    |-> [i \in 1..11 |-> [harmonic |-> i - 1, amplitude |-> amps[i],
                                        percentage |-> Number(100 * amps[i], total),
                                        status |-> statuses[i]]],
     totalEnergy  |-> total,
     fundBin      |-> fundBin,
     constitution |-> Constitution(amps, total, strict, statuses),
     healthyOrder |-> HealthyOrder(amps),
     strict       |-> strict]

\* The part of pulseHarmonicAnalysis after the amplitudes are extracted.
AnalyseAmplitudes(amps, total, strict, fundBin) ==
    IF total = 0 THEN Null
    ELSE Profile(amps, total, strict, StatusesFrom(amps, total, strict, 0), fundBin)

\* The same with totalEnergy summed over C0..C9 only.
AnalyseHarmonicsTenSummed(amps, strict, fundBin) ==
    AnalyseAmplitudes(amps, SumSeq(SubSeq(amps, 1, 10)), strict, fundBin)

\* The part of pulseHarmonicAnalysis after the fundamental bin is found.
AnalyseHarmonics(amps, strict, fundBin) ==
    AnalyseAmplitudes(amps, SumSeq(amps), strict, fundBin)

pulseHarmonicAnalysis(len, fps, strict, mag) ==
    IF len < MinSamples THEN Null
    ELSE AnalyseHarmonics(AmplitudesFrom(nextPow2(len), FundBin(len, fps, mag), mag, 0),
                          strict, FundBin(len, fps, mag))

\* Bounds of the harmonic inputs: signal length, and the multiplier of
\* each harmonic line.
HarmMaxLen == 90

HarmMaxMult == 2

\* The frame rates drawn, and the bins drawn for the first line: with 2 the
\* +-2-bin windows of neighbouring harmonics overlap, with 6 the target of
\* C10 lies beyond n/2 for n = 128.
HarmFpsChoices == {15, 30}

HarmFundBins == {2, 5, 6}

\* A pulse whose lines C0..C10 hold 40, 20, 14, 9, 5, 4, 3, 2, 1.5, 1 and
\* 0.5 percent of the energy (in half percents).
HarmBase == <<80, 40, 28, 18, 10, 8, 6, 4, 3, 2, 1>>

\* Percentages crafted so that C0 and C3 are below their minimum while
\* C1 > C2 > C3 > C4 and C1 is in excess.
CraftedLowHeartSpleen == <<10, 50, 30, 3, 2, 5, 0, 0, 0, 0, 0>>

\* The boundaries of the status classes of harmonic h in either mode, in
\* hundredths of a percent: min*weakMult, min, max and max*overMult.
StatusBoundaries(h) ==
    UNION {{(RangeMin10(st, h) * WeakMult100(st)) \div 10, RangeMin10(st, h) * 10,
            RangeMax10(st, h) * 10, (RangeMax10(st, h) * OverMult100(st)) \div 10} :
           st \in BOOLEAN}

\* Amplitudes of total 10000 that put harmonic h on a boundary of the
\* status classes of some row, or one hundredth of a percent beside it;
\* the rest of the energy is in C0 (in C1 for h = 0).
BoundaryAmplitudes ==
    {[i \in 1..11 |-> IF i = h + 1 THEN x
                      ELSE IF i = (IF h = 0 THEN 2 ELSE 1) THEN 10000 - x
                      ELSE 0] :
        <<h, x>> \in {<<h, t + d>> : h \in Harmonics, t \in UNION {StatusBoundaries(k) : k \in Harmonics},
                                   d \in {-1, 0, 1}}}

\* The line amplitudes drawn: C0..C4 scaled one by one, C5..C10 together;
\* the crafted percentages; the boundary amplitudes.
LineAmplitudes ==
    {[i \in 1..11 |-> HarmBase[i] * (IF i <= 5 THEN m[i] ELSE m[6])] :
        m \in [1..6 -> 0..HarmMaxMult]}
    \cup {CraftedLowHeartSpleen}
    \cup {a \in BoundaryAmplitudes : \A i \in 1..11 : a[i] >= 0}

\* A line spectrum: line C_h at bin f0*(h+1), nothing in between.
LineSpectrum(n, f0, amps) ==
    [i \in Bins(n) |-> IF i > 0 /\ i % f0 = 0 /\ i \div f0 <= 11 THEN amps[i \div f0]
                       ELSE 0]

\* The spectra drawn for a signal of len samples.  A signal shorter than
\* MinSamples is returned for before the transform: one spectrum stands
\* for all.
HarmSpectra(len) ==
    IF len < MinSamples THEN {[i \in Bins(nextPow2(len)) |-> 0]}
    ELSE {LineSpectrum(nextPow2(len), f0, amps) :
              f0 \in HarmFundBins, amps \in LineAmplitudes}

HarmInputs ==
    UNION {[len : {l}, fps : HarmFpsChoices, strict : BOOLEAN, mag : HarmSpectra(l)] :
           l \in 0..HarmMaxLen}

InitHarm ==
    /\ fn = "pulseHarmonicAnalysis"
    /\ arg \in HarmInputs
    /\ ret = None
    /\ pc = "call"
    /\ hist = <<>>

CallPulseHarmonicAnalysis ==
    /\ pc = "call"
    /\ fn = "pulseHarmonicAnalysis"
    /\ ret' = pulseHarmonicAnalysis(arg.len, arg.fps, arg.strict, arg.mag)
    /\ pc' = "done"
    /\ UNCHANGED <<fn, arg, hist>>

NextHarm == CallPulseHarmonicAnalysis

SpecHarm == InitHarm /\ [][NextHarm]_vars

(***************************************************************************)
(* Claims about pulseHarmonicAnalysis                                      *)
(***************************************************************************)
ProfileReturned ==
    /\ fn = "pulseHarmonicAnalysis"
    /\ pc = "done"
    /\ ret # Null

\* The amplitudes of the returned profile, C0 first.
RetAmps == [i \in 1..11 |-> ret.harmonics[i].amplitude]

\* C6: the constitution label is the label of the first rule that holds in
\* the order (a) C0 < min0 and C3 < min3, (b) C1 > max1*excessMult,
\* (c) C2 < min2*defMult, (d) C3 < min3*defMult, (e) C4 < min4*defMult,
\* (f) C1 > C2 > C3 > C4 and C0 >= min0 and, in strict mode, every status
\* normal, (g) otherwise: a label is returned exactly when its rule holds
\* and every earlier rule fails.
C6_FirstMatchWins ==
    ProfileReturned =>
        LET t  == ret.totalEnergy
            st == arg.strict
            a  == RuleA(RetAmps, t, st)
            b  == RuleB(RetAmps, t, st)
            c  == RuleC(RetAmps, t, st)
            d  == RuleD(RetAmps, t, st)
            e  == RuleE(RetAmps, t, st)
            f  == /\ ret.harmonics[2].amplitude > ret.harmonics[3].amplitude
                  /\ ret.harmonics[3].amplitude > ret.harmonics[4].amplitude
                  /\ ret.harmonics[4].amplitude > ret.harmonics[5].amplitude
                  /\ PctGe(ret.harmonics[1].amplitude, t, RangeMin10(st, 0), 100)
                  /\ (st => \A i \in 1..11 : ret.harmonics[i].status = "normal")
        IN  /\ (ret.constitution = "xinPiLiangXu") <=> a
            /\ (ret.constitution = "ganQiPianWang") <=> (~a /\ b)
            /\ (ret.constitution = "shenQiBuZu") <=> (~a /\ ~b /\ c)
            /\ (ret.constitution = "piQiXuRuo") <=> (~a /\ ~b /\ ~c /\ d)
            /\ (ret.constitution = "feiQiBuZu") <=> (~a /\ ~b /\ ~c /\ ~d /\ e)
            /\ (ret.constitution = "qiXuePingHeng") <=> (~a /\ ~b /\ ~c /\ ~d /\ ~e /\ f)
            /\ (ret.constitution = "lueYouPianCha") <=>
                   (~a /\ ~b /\ ~c /\ ~d /\ ~e /\ ~f)

\* Rule (a) holds together with rule (b) and with the descending order
\* C1 > C2 > C3 > C4 of rule (f), and the label is rule (a)'s.
C6_Witness ==
    /\ ProfileReturned
    /\ RuleA(RetAmps, ret.totalEnergy, arg.strict)
    /\ RuleB(RetAmps, ret.totalEnergy, arg.strict)
    /\ ret.healthyOrder
    /\ ret.constitution = "xinPiLiangXu"

\* C7: each harmonic's status classifies its percentage p against its
\* {min, max} with over = 1.1, weak = 0.8 in strict mode and over = 1.3,
\* weak = 0.5 in normal mode: excess iff p > max*over, normal iff
\* min <= p <= max, weak iff min*weak <= p < min, deficient iff
\* p < min*weak, elevated iff max < p <= max*over; exactly one of the five
\* conditions holds for every harmonic.
C7_StatusClassification ==
    ProfileReturned =>
        \A i \in 1..11 :
            LET amp    == ret.harmonics[i].amplitude
                t      == ret.totalEnergy
                min10  == RangeMin10(arg.strict, i - 1)
                max10  == RangeMax10(arg.strict, i - 1)
                over   == IF arg.strict THEN 110 ELSE 130
                weak   == IF arg.strict THEN 80 ELSE 50
                excess == 100000 * amp > max10 * over * t
                normal == 1000 * amp >= min10 * t /\ 1000 * amp <= max10 * t
                mild   == 100000 * amp >= min10 * weak * t /\ 1000 * amp < min10 * t
                marked == 100000 * amp < min10 * weak * t
                raised == 1000 * amp > max10 * t /\ 100000 * amp <= max10 * over * t
                status == ret.harmonics[i].status
            IN  /\ (status = "excess") <=> excess
                /\ (status = "normal") <=> normal
                /\ (status = "weak") <=> mild
                /\ (status = "deficient") <=> marked
                /\ (status = "elevated") <=> raised
                /\ Cardinality({k \in 1..5 : <<excess, normal, mild, marked, raised>>[k]}) = 1

\* A harmonic sits exactly on max*over of its row and is mildly elevated.
C7_WitnessOnBoundary ==
    /\ ProfileReturned
    /\ \E i \in 1..11 :
           /\ ret.harmonics[i].status = "elevated"
           /\ 100000 * ret.harmonics[i].amplitude =
                  RangeMax10(arg.strict, i - 1) * OverMult100(arg.strict) * ret.totalEnergy

(***************************************************************************)
(* The metric layers together                                              *)
(***************************************************************************)
InitMetrics == InitHRV \/ InitBreath \/ InitHarm

NextMetrics ==
    \/ CallCalculateHRVMetrics
    \/ CallEstimateBreathingRate
    \/ CallPulseHarmonicAnalysis

SpecMetrics == InitMetrics /\ [][NextMetrics]_vars

\* C9: calculateHRVMetrics returns null for fewer than 3 intervals, and
\* estimateBreathingRate and pulseHarmonicAnalysis return null for fewer
\* than 90 samples.
C9_UndersizedInputAbsent ==
    /\ (fn = "calculateHRVMetrics" /\ pc = "done" /\ Len(arg.rr) < 3) => ret = Null
    /\ (fn = "estimateBreathingRate" /\ pc = "done" /\ arg.len < 90) => ret = Null
    /\ (fn = "pulseHarmonicAnalysis" /\ pc = "done" /\ arg.len < 90) => ret = Null

\* A signal of 89 samples has been given to estimateBreathingRate, its
\* initial peak bin stands for a plausible rate, and the result is absent.
C9_Witness ==
    /\ fn = "estimateBreathingRate"
    /\ pc = "done"
    /\ arg.len = 89
    /\ 8 * nextPow2(arg.len) <= BreathPeakBin(arg.len, arg.fps, arg.pw) * arg.fps * 60
    /\ BreathPeakBin(arg.len, arg.fps, arg.pw) * arg.fps * 60 <= 35 * nextPow2(arg.len)
    /\ ret = Null

(***************************************************************************)
(* assessSignalQuality (signal.js)                                         *)
(*                                                                         *)
(* The waveform enters as its length, the power spectrum pw of its         *)
(* windowed transform and the standard deviations std1 and std2 of its two *)
(* halves (arrayStd).  The score is computed as an exact fraction.  The    *)
(* logarithm is a table: the spectra drawn have signalPower a multiple of  *)
(* noisePower, or the reverse.                                             *)
(***************************************************************************)
\* The minimum number of samples of assessSignalQuality.
QualityMinSamples == 60

\* -Infinity: 10 * Math.log10(0 / noisePower).
NegInfinity == -1000000

\* 8 * 10 * Math.log10(k) in thousandths, for k = 1..10.
Log10Times80Milli == <<0, 24082, 38170, 48165, 55918, 62252, 67608, 72247, 76339, 80000>>

\* Math.round(10 * Math.log10(k) * 10) for k = 1..10.
Log10Times100 == <<0, 30, 48, 60, 70, 78, 85, 90, 95, 100>>

\* The ratios whose logarithm is on the tables.
OnLogTable(signalPower, noisePower) ==
    IF signalPower = 0 \/ noisePower = 0 THEN TRUE
    ELSE IF signalPower >= noisePower
    THEN signalPower % noisePower = 0 /\ signalPower \div noisePower <= 10
    ELSE noisePower % signalPower = 0 /\ noisePower \div signalPower <= 10

\* hrMin and hrMax: the HR band 0.7 Hz .. 3.33 Hz.
QualityHrMin(len, fps) == Max2(1, FloorDiv(70 * nextPow2(len), 100 * fps))

\* twice hrMax (n/2 is a half for n = 1)
QualityHrMax2(len, fps) == Min2(2 * CeilDiv(333 * nextPow2(len), 100 * fps), nextPow2(len))

\* The sum and the maximum of pw[i..last] (0 for an empty range, powers
\* being >= 0).
RECURSIVE SumFrom(_, _, _)
SumFrom(pw, i, last) ==
    IF i > last THEN 0
    ELSE IF i = last THEN pw[i]
    ELSE SumFrom(pw, i, (i + last) \div 2) + SumFrom(pw, (i + last) \div 2 + 1, last)

\* if (p > peakPower) peakPower = p
MaxFrom(pw, i, last, peakPower) ==
    LET seen == {pw[j] : j \in i..last} \cup {peakPower}
    IN  CHOOSE p \in seen : \A q \in seen : p >= q

\* totalPower over the bins 1..n/2; signalPower and peakPower over those
\* of them with hrMin <= i <= hrMax; noisePower
TotalPower(len, pw) == SumFrom(pw, 1, nextPow2(len) \div 2)

SignalPower(len, fps, pw) ==
    SumFrom(pw, QualityHrMin(len, fps), QualityHrMax2(len, fps) \div 2)

PeakPower(len, fps, pw) ==
    MaxFrom(pw, QualityHrMin(len, fps), QualityHrMax2(len, fps) \div 2, 0)

NoisePower(len, fps, pw) == TotalPower(len, pw) - SignalPower(len, fps, pw)

\* snr * 8 in thousandths (NegInfinity when signalPower is 0)
SnrTimes8Milli(sig, noise) ==
    IF noise > 0
    THEN IF sig = 0 THEN NegInfinity
         ELSE IF sig >= noise THEN Log10Times80Milli[sig \div noise]
         ELSE -Log10Times80Milli[noise \div sig]
    ELSE 0

\* Math.round(snr * 10), the snr of the result in tenths
SnrTenths(sig, noise) ==
    IF noise > 0
    THEN IF sig = 0 THEN NegInfinity
         ELSE IF sig >= noise THEN Log10Times100[sig \div noise]
         ELSE -Log10Times100[noise \div sig]
    ELSE 0

\* hrMax - hrMin + 1 (an integer whenever signalPower > 0)
BandWidth(len, fps) == QualityHrMax2(len, fps) \div 2 - QualityHrMin(len, fps) + 1

\* The score before rounding, as the numerator over ScoreDen: the SNR
\* contribution, the peak sharpness ((par - 2) * 7 with
\* par = peakPower * width / signalPower) and stationarity * 25.
ScoreDen(sig, std1, std2) == 1000 * Max2(1, sig) * Max2(1, Max2(std1, std2))

ScoreNum(sig, noise, peak, width, std1, std2) ==
    LET sd   == Max2(1, sig)
        md   == Max2(1, Max2(std1, std2))
        snr8 == SnrTimes8Milli(sig, noise)
        c1   == IF snr8 > 0 THEN Min2(40000, snr8) ELSE 0
        \* par > 2 needs avgHRPower > 0, that is signalPower > 0
        c2   == IF sig > 0 /\ peak * width > 2 * sig
                THEN Min2(35 * sig, 7 * (peak * width - 2 * sig)) ELSE 0
        c3   == IF std1 > 0 THEN 25 * Min2(std1, std2) ELSE 0
    IN  c1 * sd * md + c2 * 1000 * md + c3 * 1000 * sd

\* The result for a waveform of at least 60 samples, its score clamped to
\* 0..top.
QualityResult(len, fps, pw, std1, std2, top) ==
    LET sig   == SignalPower(len, fps, pw)
        noise == NoisePower(len, fps, pw)
        score == Min2(top, Max2(0, RoundDiv(
                     ScoreNum(sig, noise, PeakPower(len, fps, pw), BandWidth(len, fps),
                              std1, std2),
                     ScoreDen(sig, std1, std2))))
    IN  [kind |-> "quality", score |-> score, usable |-> score > UsableAbove,
         snr10 |-> SnrTenths(sig, noise)]

\* assessSignalQuality with the score clamped to 0..100.
AssessQualityToHundred(len, fps, pw, std1, std2) ==
    IF len < QualityMinSamples
    THEN [kind |-> "quality", score |-> 0, usable |-> FALSE, snr10 |-> 0]
    ELSE QualityResult(len, fps, pw, std1, std2, 100)

assessSignalQuality(len, fps, pw, std1, std2) ==
    IF len < QualityMinSamples
    THEN [kind |-> "quality", score |-> 0, usable |-> FALSE, snr10 |-> 0]
    ELSE QualityResult(len, fps, pw, std1, std2, MaxScore)

\* Bounds of the quality inputs: length, power of a line, standard
\* deviation of a half.
QualityMaxLen == 61

QualityMaxPow == 4

QualityMaxStd == 3

\* The frame rates drawn: at 1 fps the HR band is empty (hrMin > hrMax).
QualityFpsChoices == {1, 15, 30}

\* A spectrum of three lines, at bins 4, 5 and 12.
ThreeLines(n, p4, p5, p12) ==
    [i \in Bins(n) |-> IF i = 4 THEN p4 ELSE IF i = 5 THEN p5 ELSE IF i = 12 THEN p12 ELSE 0]

QualitySpectra(len) ==
    IF len < QualityMinSamples THEN {[i \in Bins(nextPow2(len)) |-> 0]}
    ELSE {ThreeLines(nextPow2(len), p4, p5, p12) :
              p4 \in 0..QualityMaxPow, p5 \in 0..QualityMaxPow, p12 \in 0..QualityMaxPow}

QualityInputs ==
    {a \in UNION {[len : {l}, fps : QualityFpsChoices, pw : QualitySpectra(l),
                   std1 : 0..QualityMaxStd, std2 : 0..QualityMaxStd] :
                  l \in 0..QualityMaxLen} :
        OnLogTable(SignalPower(a.len, a.fps, a.pw), NoisePower(a.len, a.fps, a.pw))}

InitQuality ==
    /\ fn = "assessSignalQuality"
    /\ arg \in QualityInputs
    /\ ret = None
    /\ pc = "call"
    /\ hist = <<>>

CallAssessSignalQuality ==
    /\ pc = "call"
    /\ fn = "assessSignalQuality"
    /\ ret' = assessSignalQuality(arg.len, arg.fps, arg.pw, arg.std1, arg.std2)
    /\ pc' = "done"
    /\ UNCHANGED <<fn, arg, hist>>

NextQuality == CallAssessSignalQuality

SpecQuality == InitQuality /\ [][NextQuality]_vars

(***************************************************************************)
(* Claims about assessSignalQuality                                        *)
(***************************************************************************)
QualityDone == fn = "assessSignalQuality" /\ pc = "done"

\* The three contributions of the claim's formula, in thousandths of a
\* point over the power and deviation denominators: max(0, snr) * 8 capped
\* at 40, max(0, par - 2) * 7 capped at 35, stationarity * 25.
ClaimedScoreNum ==
    LET sig   == SignalPower(arg.len, arg.fps, arg.pw)
        noise == NoisePower(arg.len, arg.fps, arg.pw)
        peak  == PeakPower(arg.len, arg.fps, arg.pw)
        width == BandWidth(arg.len, arg.fps)
        sd    == Max2(1, sig)
        md    == Max2(1, Max2(arg.std1, arg.std2))
        snr8  == Min2(40000, Max2(0, SnrTimes8Milli(sig, noise)))
        par7  == IF sig > 0 THEN Min2(35 * sig, Max2(0, 7 * (peak * width - 2 * sig))) ELSE 0
        stat  == IF arg.std1 > 0 THEN 25 * Min2(arg.std1, arg.std2) ELSE 0
    IN  snr8 * sd * md + par7 * 1000 * md + stat * 1000 * sd

NextHRV == CallCalculateHRVMetrics

SpecHRV == InitHRV /\ [][NextHRV]_vars

HRVReturned ==
    /\ fn = "calculateHRVMetrics"
    /\ pc = "done"
    /\ ret # Null

\* The successive differences of more than 50 ms in either direction.
LargeSteps(rr) ==
    {i \in 2..Len(rr) : rr[i] - rr[i - 1] > 50 \/ rr[i - 1] - rr[i] > 50}

\* C12: for intervals that are all equal (length >= 3) the result is
\* sdnn = 0, rmssd = 0, pnn50 = 0, lfHfRatio = 1 and meanRR the common
\* interval; for every sequence pnn50 is the percentage (in tenths) of the
\* successive differences with |delta| > 50 ms, within 0..100.
C12_EqualIntervalsAndPnn50 ==
    HRVReturned =>
        /\ (\A i \in 1..Len(arg.rr) : arg.rr[i] = arg.rr[1]) =>
               /\ ret.sdnn = 0
               /\ ret.rmssd = 0
               /\ ret.pnn50x10 = 0
               /\ ret.lfHfx100 = 100
               /\ ret.meanRR = arg.rr[1]
        /\ ret.pnn50x10 \in 0..1000
        /\ LET cnt == Cardinality(LargeSteps(arg.rr))
               den == Len(arg.rr) - 1
           IN  \* |pnn50 - 100*cnt/den| <= 0.05
               /\ 2 * (den * ret.pnn50x10 - 1000 * cnt) <= den
               /\ 2 * (1000 * cnt - den * ret.pnn50x10) <= den

\* Four equal intervals have been analysed.
C12_Witness ==
    /\ HRVReturned
    /\ Len(arg.rr) = 4
    /\ \A i \in 1..4 : arg.rr[i] = arg.rr[1]
    /\ ret.sdnn = 0 /\ ret.rmssd = 0 /\ ret.pnn50x10 = 0 /\ ret.lfHfx100 = 100

(***************************************************************************)
(* detectMotionArtifact, chromAlgorithm, posAlgorithm (signal.js)          *)
(*                                                                         *)
(* The channels are sequences of integer levels.  A sample of the CHROM    *)
(* or POS output is kept as the exact value (a - alpha * b) / den with     *)
(* alpha^2 the fraction alphaSq[1] / alphaSq[2].                           *)
(***************************************************************************)
\* |dR| + |dG| + |dB| at frame i
FrameDelta(r, g, b, i) ==
    Abs(At(r, i) - At(r, i - 1)) + Abs(At(g, i) - At(g, i - 1))
    + Abs(At(b, i) - At(b, i - 1))

\* if (delta > maxDelta) maxDelta = delta, for the frames from i on
MaxDelta(r, g, b, i, maxDelta) ==
    LET seen == {FrameDelta(r, g, b, j) : j \in i..(Len(r) - 1)} \cup {maxDelta}
    IN  CHOOSE d \in seen : \A e \in seen : d >= e

\* meanLevel is sum / (windowSize * 3): NaN or infinite for windowSize 0,
\* and then the result is false.
detectMotionArtifact(r, g, b, windowSize) ==
    IF Len(r) < windowSize + 1 THEN FALSE
    ELSE LET start == Len(r) - windowSize
             level == SumRange(r, start, Len(r)) + SumRange(g, start, Len(r))
                      + SumRange(b, start, Len(r))
         IN  /\ windowSize > 0
             /\ level > 0
             /\ 100 * MaxDelta(r, g, b, start + 1, 0) * 3 * windowSize > 8 * level

\* sum of signal[j]^2 for start <= j < end
RECURSIVE SumSqRange(_, _, _)
SumSqRange(signal, start, end) ==
    IF start >= end THEN 0
    ELSE IF start + 1 = end THEN At(signal, start) * At(signal, start)
    ELSE SumSqRange(signal, start, (start + end) \div 2)
         + SumSqRange(signal, (start + end) \div 2, end)

\* cnt^2 times the square of localStd(signal, center, winSize)
LocalVar(signal, center, winSize) ==
    LET start == Max2(0, center - winSize)
        end   == Min2(Len(signal), center + winSize)
        sum   == SumRange(signal, start, end)
    IN  Max2(0, (end - start) * SumSqRange(signal, start, end) - sum * sum)

\* v / mean as the fraction <<num, den>>, 0 unless the mean is > 0
NormalisedLevel(v, cnt, sum) == IF sum > 0 THEN <<v * cnt, sum>> ELSE <<0, 1>>

\* One sample of chromAlgorithm: x - alpha * y, with 2x and 2y over the
\* common denominator 2 * den.
ChromSample(r, g, b, i, winSize) ==
    LET start == Max2(0, i - winSize)
        end   == Min2(Len(r), i + winSize)
        cnt   == end - start
        rn    == NormalisedLevel(At(r, i), cnt, SumRange(r, start, end))
        gn    == NormalisedLevel(At(g, i), cnt, SumRange(g, start, end))
        bn    == NormalisedLevel(At(b, i), cnt, SumRange(b, start, end))
        varX  == LocalVar(r, i, winSize)
        varY  == LocalVar(g, i, winSize)
    IN  [a       |-> 2 * (3 * rn[1] * gn[2] * bn[2] - 2 * gn[1] * rn[2] * bn[2]),
         b       |-> 3 * rn[1] * gn[2] * bn[2] + 2 * gn[1] * rn[2] * bn[2]
                     - 3 * bn[1] * rn[2] * gn[2],
         den     |-> 2 * rn[2] * gn[2] * bn[2],
         alphaSq |-> IF varY > 0 THEN <<varX, varY>> ELSE <<1, 1>>]

\* A sample that is a raw level (the n < 30 branch) or 0.
LevelSample(v) == [a |-> v, b |-> 0, den |-> 1, alphaSq |-> <<1, 1>>]

\* The shortest input the two algorithms process.
MinChannelLen == 30

chromAlgorithm(r, g, b) ==
    IF Len(r) < MinChannelLen THEN [i \in 1..Len(g) |-> LevelSample(g[i])]
    ELSE [i \in 1..Len(r) |-> ChromSample(r, g, b, i - 1, Min2(45, Len(r) \div 2))]

\* Whether s1 (which = 1) or s2 (which = 2) differs from 0 somewhere in the
\* window: their window means are 0, so this is stdS1 > 0, stdS2 > 0.
PosVaries(r, g, b, start, end, sR, sG, sB, which) ==
    \E j \in start..(end - 1) :
        IF which = 1 THEN At(g, j) * sB # At(b, j) * sG
        ELSE At(g, j) * sB * sR + At(b, j) * sG * sR # 2 * At(r, j) * sG * sB

\* One sample of posAlgorithm: S1 + alpha * S2 (b is -S2); alphaSq is
\* <<1, 1>> for the alpha = 1 fallback, <<0, 1>> when only S1 is flat, and
\* <<2, 1>>, standing for a ratio of deviations, otherwise.
PosSample(r, g, b, i, winLen) ==
    LET start == Max2(0, i - winLen \div 2)
        end   == Min2(Len(r), i + winLen \div 2)
        cnt   == end - start
        sR    == SumRange(r, start, end)
        sG    == SumRange(g, start, end)
        sB    == SumRange(b, start, end)
    IN  IF sR = 0 \/ sG = 0 \/ sB = 0 THEN LevelSample(0)
        ELSE [a       |-> cnt * (At(g, i) * sB * sR - At(b, i) * sG * sR),
              b       |-> -cnt * (At(g, i) * sB * sR + At(b, i) * sG * sR
                                  - 2 * At(r, i) * sG * sB),
              den     |-> sR * sG * sB,
              alphaSq |-> IF ~PosVaries(r, g, b, start, end, sR, sG, sB, 2) THEN <<1, 1>>
                          ELSE IF ~PosVaries(r, g, b, start, end, sR, sG, sB, 1)
                          THEN <<0, 1>>
                          ELSE <<2, 1>>]

posAlgorithm(r, g, b, fps) ==
    IF Len(r) < MinChannelLen THEN [i \in 1..Len(g) |-> LevelSample(g[i])]
    ELSE [i \in 1..Len(r) |-> PosSample(r, g, b, i - 1, RoundDiv(16 * fps, 10))]

\* Whether an output sample is 0: a = alpha * b.  With alpha a ratio of
\* two nonzero deviations and b # 0 the sample is taken as nonzero.
IsZeroSample(s) ==
    IF s.alphaSq = <<1, 1>> THEN s.a = s.b
    ELSE IF s.alphaSq[1] = 0 THEN s.a = 0
    ELSE IF s.b = 0 THEN s.a = 0
    ELSE FALSE

AllZero(out) == \A i \in 1..Len(out) : IsZeroSample(out[i])

\* Bounds of the flat inputs: length and level of a channel.
FlatLen == 200

FlatMaxLevel == 2

FlatFpsChoices == {1, 30}

FlatWindowChoices == {0, 30, 199, 200}

Flat(c, n) == [i \in 1..n |-> c]

FlatChannels ==
    {[r |-> Flat(cr, FlatLen), g |-> Flat(cg, FlatLen), b |-> Flat(cb, FlatLen)] :
        cr \in 0..FlatMaxLevel, cg \in 0..FlatMaxLevel, cb \in 0..FlatMaxLevel}

InitFlat ==
    /\ \E ch \in FlatChannels :
          \/ /\ fn = "detectMotionArtifact"
             /\ \E w \in FlatWindowChoices : arg = [ch |-> ch, windowSize |-> w]
          \/ /\ fn \in {"chromAlgorithm", "posAlgorithm"}
             /\ \E f \in FlatFpsChoices : arg = [ch |-> ch, fps |-> f]
    /\ ret = None
    /\ pc = "call"
    /\ hist = <<>>

CallDetectMotionArtifact ==
    /\ pc = "call"
    /\ fn = "detectMotionArtifact"
    /\ ret' = [kind |-> "bool",
               v |-> detectMotionArtifact(arg.ch.r, arg.ch.g, arg.ch.b, arg.windowSize)]
    /\ pc' = "done"
    /\ UNCHANGED <<fn, arg, hist>>

CallChromAlgorithm ==
    /\ pc = "call"
    /\ fn = "chromAlgorithm"
    /\ ret' = [kind |-> "seq", v |-> chromAlgorithm(arg.ch.r, arg.ch.g, arg.ch.b)]
    /\ pc' = "done"
    /\ UNCHANGED <<fn, arg, hist>>

CallPosAlgorithm ==
    /\ pc = "call"
    /\ fn = "posAlgorithm"
    /\ ret' = [kind |-> "seq", v |-> posAlgorithm(arg.ch.r, arg.ch.g, arg.ch.b, arg.fps)]
    /\ pc' = "done"
    /\ UNCHANGED <<fn, arg, hist>>

\* What assessSignalQuality measures on an output: an all-zero output has
\* the zero spectrum and zero deviations; of any other output the spectrum
\* and the deviations are not determined here.
OutputMeasurements(out) ==
    IF AllZero(out)
    THEN {[pw |-> [i \in Bins(nextPow2(Len(out))) |-> 0], std1 |-> 0, std2 |-> 0]}
    ELSE [pw : QualitySpectra(Len(out)), std1 : 0..1, std2 : 0..1]

\* assessSignalQuality of the output of chromAlgorithm or posAlgorithm.
AssessOutput ==
    /\ pc = "done"
    /\ fn \in {"chromAlgorithm", "posAlgorithm"}
    /\ \E m \in OutputMeasurements(ret.v) :
          /\ OnLogTable(SignalPower(Len(ret.v), arg.fps, m.pw),
                        NoisePower(Len(ret.v), arg.fps, m.pw))
          /\ ret' = assessSignalQuality(Len(ret.v), arg.fps, m.pw, m.std1, m.std2)
    /\ hist' = <<ret.v>>
    /\ pc' = "assessed"
    /\ UNCHANGED <<fn, arg>>

NextFlat ==
    \/ CallDetectMotionArtifact
    \/ CallChromAlgorithm
    \/ CallPosAlgorithm
    \/ AssessOutput

SpecFlat == InitFlat /\ [][NextFlat]_vars

(***************************************************************************)
(* Claims about the flat input                                             *)
(***************************************************************************)
\* C13: for a flat input of 200 samples per channel detectMotionArtifact
\* returns false for every windowSize, chromAlgorithm and posAlgorithm each
\* return 200 zeros, and assessSignalQuality of that output is score 0,
\* usable false.
C13_FlatInputQuiet ==
    /\ (fn = "detectMotionArtifact" /\ pc = "done") => ret.v = FALSE
    /\ (fn \in {"chromAlgorithm", "posAlgorithm"} /\ pc = "done") =>
           /\ Len(ret.v) = Len(arg.ch.r)
           /\ AllZero(ret.v)
    /\ pc = "assessed" => (ret.score = 0 /\ ~ret.usable)

(***************************************************************************)
(* estimateSpO2 (analysis.js)                                              *)
(*                                                                         *)
(* The channels are sequences of integer levels.  ratio^2 is kept as an    *)
(* exact fraction, and the rounding of 110 - 25 * ratio is decided by      *)
(* comparing ratio^2 with the squares of the rounding thresholds.          *)
(***************************************************************************)
\* An exception thrown out of the function.
Thrown == [kind |-> "thrown"]

\* recent: the window of estimateSpO2.
Recent == 60

\* a/b <= c/d for a, c >= 0 and b, d > 0, without multiplying out.
RECURSIVE FracLeq(_, _, _, _)
FracLeq(a, b, c, d) ==
    IF a \div b # c \div d THEN a \div b < c \div d
    ELSE IF a % b = 0 THEN TRUE
    ELSE IF c % d = 0 THEN FALSE
    ELSE FracLeq(d, c % d, b, a % b)

\* The slice(-recent) of a channel: its first index (0-based) and its sums.
SliceStart(signal) == Max2(0, Len(signal) - Recent)

SliceSum(signal) == SumRange(signal, SliceStart(signal), Len(signal))

\* recent^2 times the mean squared deviation of the slice from
\* sum / recent: recent^2 * rAC^2.  (Only for a slice of recent samples.)
SliceDev2(signal) ==
    Recent * SumSqRange(signal, SliceStart(signal), Len(signal))
    - SliceSum(signal) * SliceSum(signal)

\* recent times rDC or bDC: the mean, or 1 when the mean is 0
SliceDC(signal) == IF SliceSum(signal) # 0 THEN SliceSum(signal) ELSE Recent

\* Whether (bAC / bDC || 1) is the fallback 1: bAC is NaN when the slice
\* has fewer than recent samples (bSlice[i] is undefined), or bAC is 0.
BlueFallback(blue) == Len(blue) < Recent \/ SliceDev2(blue) = 0

\* Math.round(Math.max(85, Math.min(100, 110 - 25 * ratio))) for
\* ratio = sqrt(num / den) >= 0: the largest k <= 100 with
\* 25 * ratio <= 110.5 - k, and 85 if there is none above 85.
RECURSIVE RoundSpO2(_, _, _)
RoundSpO2(num, den, k) ==
    IF k <= 85 THEN 85
    ELSE IF FracLeq(num, den, (221 - 2 * k) * (221 - 2 * k), 2500) THEN k
    ELSE RoundSpO2(num, den, k - 1)

\* The result for a red channel of at least recent samples and a blue
\* channel that is not empty.
SpO2Result(red, blue) ==
    LET rNum  == SliceDev2(red)
        rDen  == SliceDC(red) * SliceDC(red)
        fall  == BlueFallback(blue)
        bNum  == IF fall THEN 1 ELSE SliceDev2(blue)
        bDen  == IF fall THEN 1 ELSE SliceDC(blue) * SliceDC(blue)
        neg   == (SliceDC(red) < 0) # (~fall /\ SliceDC(blue) < 0)
        g     == Gcd(rNum * bDen, rDen * bNum)
    IN  IF rNum = 0 \/ neg THEN Number(100, 1)
        ELSE Number(RoundSpO2((rNum * bDen) \div g, (rDen * bNum) \div g, 100), 1)

\* bSlice.reduce((a, b) => a + b) of an empty bSlice throws a TypeError.
estimateSpO2(red, blue) ==
    IF Len(red) < Recent THEN Null
    ELSE IF Len(blue) = 0 THEN Thrown
    ELSE SpO2Result(red, blue)

\* Bound of the channel levels (-1..SpO2MaxLevel), and the choices of the
\* channel lengths and of the number of trailing samples at a second level.
SpO2MaxLevel == 1

SpO2RedLens == {59, 60, 61}

SpO2BlueLens == {0, 1, 59, 60, 61}

SpO2StepChoices == {0, 1, 10, 30}

\* n samples: level a, and level b for the last k of them.
Step(n, a, b, k) == [i \in 1..n |-> IF i > n - k THEN b ELSE a]

StepChannels(lens) ==
    {Step(n, a, b, k) : n \in lens, a \in -1..SpO2MaxLevel, b \in -1..SpO2MaxLevel,
                        k \in SpO2StepChoices}

InitSpO2 ==
    /\ fn = "estimateSpO2"
    /\ arg \in [red : StepChannels(SpO2RedLens), blue : StepChannels(SpO2BlueLens)]
    /\ ret = None
    /\ pc = "call"
    /\ hist = <<>>

CallEstimateSpO2 ==
    /\ pc = "call"
    /\ fn = "estimateSpO2"
    /\ ret' = estimateSpO2(arg.red, arg.blue)
    /\ pc' = "done"
    /\ UNCHANGED <<fn, arg, hist>>

NextSpO2 == CallEstimateSpO2

SpecSpO2 == InitSpO2 /\ [][NextSpO2]_vars

(***************************************************************************)
(* Claims about estimateSpO2                                               *)
(***************************************************************************)
SpO2Done == fn = "estimateSpO2" /\ pc = "done"

\* C14: estimateSpO2 returns null or a whole number in 85..100, for every
\* pair of channels, the degenerate ones included (zero mean, a blue
\* channel without variance or shorter than the window): a degenerate
\* input never gives a result that is not a number in that range.
C14_SpO2InRange ==
    SpO2Done =>
        \/ ret = Null
        \/ /\ ret.kind = "num"
           /\ ret.den = 1
           /\ ret.num \in 85..100

\* C14 for a blue channel that is not empty: null for a red channel of
\* fewer than 60 samples, otherwise a whole number in 85..100.
C14_SpO2InRangeWithBlue ==
    (SpO2Done /\ Len(arg.blue) > 0) =>
        IF Len(arg.red) < 60 THEN ret = Null
        ELSE /\ ret.kind = "num"
             /\ ret.den = 1
             /\ ret.num \in 85..100

(***************************************************************************)
(* Claims about the harmonic records                                       *)
(***************************************************************************)
\* The magnitude at bin i, 0 outside the bins 1..n/2.
MagAt(mag, n, i) == IF i >= 1 /\ i <= n \div 2 THEN mag[i] ELSE 0

\* The largest magnitude within 2 bins of bin t among the bins 1..n/2.
PeakNear(mag, n, t) ==
    Max2(Max2(Max2(MagAt(mag, n, t - 2), MagAt(mag, n, t - 1)),
              Max2(MagAt(mag, n, t), MagAt(mag, n, t + 1))),
         MagAt(mag, n, t + 2))

\* The peaks near fb * k for k = k..11, in order.
RECURSIVE PeaksNearMultiples(_, _, _, _)
PeaksNearMultiples(mag, n, fb, k) ==
    IF k > 11 THEN <<>>
    ELSE <<PeakNear(mag, n, fb * k)>> \o PeaksNearMultiples(mag, n, fb, k + 1)

\* The result is absent when the peaks sum to 0, and otherwise a profile
\* of 11 records over these peaks and their sum.
IsProfileOf(result, peak, total) ==
    IF total = 0 THEN result = Null
    ELSE /\ result # Null
         /\ DOMAIN result.harmonics = 1..11
         /\ result.totalEnergy = total
         /\ \A i \in 1..11 :
                /\ result.harmonics[i].harmonic = i - 1
                /\ result.harmonics[i].amplitude = peak[i]
                \* percentage = amplitude / totalEnergy * 100
                /\ result.harmonics[i].percentage.num = 100 * peak[i]
                /\ result.harmonics[i].percentage.den = total
         \* the percentages, all over totalEnergy, sum to 100
         /\ SumSeq([i \in 1..11 |-> result.harmonics[i].percentage.num]) = 100 * total

\* C15: a returned profile holds 11 harmonic records with indices 0..10;
\* totalEnergy is the sum of their amplitudes (each the peak within 2 bins
\* of fundBin * (h + 1), 0 when that is beyond n/2); each percentage is
\* amplitude / totalEnergy * 100 and the percentages sum to 100; and the
\* result is absent when totalEnergy is 0.
C15_PercentagesSumToHundred ==
    (fn = "pulseHarmonicAnalysis" /\ pc = "done" /\ arg.len >= 90) =>
        LET peak == PeaksNearMultiples(arg.mag, nextPow2(arg.len),
                                       FundBin(arg.len, arg.fps, arg.mag), 1)
        IN  IsProfileOf(ret, peak, SumSeq(peak))

\* A profile whose last harmonic has its whole search window beyond n/2
\* (amplitude 0) while C1's window holds a line.
C15_Witness ==
    /\ ProfileReturned
    /\ 11 * ret.fundBin - 2 > nextPow2(arg.len) \div 2
    /\ ret.harmonics[11].amplitude = 0
    /\ ret.harmonics[2].amplitude > 0

(***************************************************************************)
(* analyzeEmotionalState (analysis.js)                                     *)
(*                                                                         *)
(* hrvMetrics is Null or a record of calculateHRVMetrics (pnn50 in tenths, *)
(* lfHfRatio in hundredths); hr is in whole beats per minute.              *)
(***************************************************************************)
\* stressScore: the points accumulated from the five measurements
StressScore(m, hr) ==
    (IF m.sdnn < 20 THEN 3 ELSE IF m.sdnn < 40 THEN 2 ELSE IF m.sdnn < 60 THEN 1 ELSE 0)
    + (IF m.rmssd < 15 THEN 2 ELSE IF m.rmssd < 30 THEN 1 ELSE 0)
    + (IF m.pnn50x10 < 30 THEN 1 ELSE 0)
    + (IF hr > 100 THEN 2 ELSE IF hr > 85 THEN 1 ELSE 0)
    + (IF m.lfHfx100 > 250 THEN 2 ELSE IF m.lfHfx100 > 150 THEN 1 ELSE 0)

\* The level cascade with 'high' from 6 points on.
StressLevelHighFromSix(stressScore) ==
    IF stressScore >= 6 THEN "high"
    ELSE IF stressScore >= 5 THEN "medium-high"
    ELSE IF stressScore >= 3 THEN "medium"
    ELSE IF stressScore >= 1 THEN "low"
    ELSE "very-low"

\* The level cascade of the five returns.
StressLevel(stressScore) ==
    IF stressScore >= 7 THEN "high"
    ELSE IF stressScore >= 5 THEN "medium-high"
    ELSE IF stressScore >= 3 THEN "medium"
    ELSE IF stressScore >= 1 THEN "low"
    ELSE "very-low"

\* The unknown state has the state '--' and no level.
analyzeEmotionalState(hrvMetrics, hr) ==
    IF hrvMetrics = Null THEN [kind |-> "emotion", state |-> "--"]
    ELSE [kind |-> "emotion", state |-> StressLevel(StressScore(hrvMetrics, hr)),
          level |-> StressLevel(StressScore(hrvMetrics, hr))]

\* The measurements drawn: each threshold of the code, one step below or
\* on it, and one step above.
EmotionMetrics ==
    [kind : {"hrv"}, sdnn : {0, 19, 20, 39, 40, 59, 60}, rmssd : {0, 14, 15, 29, 30},
     pnn50x10 : {0, 29, 30}, lfHfx100 : {100, 150, 151, 250, 251}, meanRR : {800}]

EmotionRates == {60, 85, 86, 100, 101}

InitEmotion ==
    /\ fn = "analyzeEmotionalState"
    /\ arg \in [metrics : EmotionMetrics \cup {Null}, hr : EmotionRates]
    /\ ret = None
    /\ pc = "call"
    /\ hist = <<>>

CallAnalyzeEmotionalState ==
    /\ pc = "call"
    /\ fn = "analyzeEmotionalState"
    /\ ret' = analyzeEmotionalState(arg.metrics, arg.hr)
    /\ pc' = "done"
    /\ UNCHANGED <<fn, arg, hist>>

NextEmotion == CallAnalyzeEmotionalState

SpecEmotion == InitEmotion /\ [][NextEmotion]_vars

(***************************************************************************)
(* Claims about analyzeEmotionalState                                      *)
(***************************************************************************)
\* The points of the five measurements, each counted from its thresholds.
ClaimedPoints(m, hr) ==
    <<Cardinality({t \in {20, 40, 60} : m.sdnn < t}),
      Cardinality({t \in {15, 30} : m.rmssd < t}),
      Cardinality({t \in {30} : m.pnn50x10 < t}),
      Cardinality({t \in {85, 100} : hr > t}),
      Cardinality({t \in {150, 250} : m.lfHfx100 > t})>>

\* The five levels in their order.
LevelOrder == <<"very-low", "low", "medium", "medium-high", "high">>

\* C16: with metrics absent analyzeEmotionalState returns the unknown
\* state without a level; otherwise each measurement contributes 0..3
\* points, the total is in 0..10 and it maps to exactly one of the five
\* ordered levels: 0 very-low, 1-2 low, 3-4 medium, 5-6 medium-high,
\* >= 7 high.
C16_EmotionalStateTotal ==
    (fn = "analyzeEmotionalState" /\ pc = "done") =>
        IF arg.metrics = Null
        THEN ret.state = "--" /\ "level" \notin DOMAIN ret
        ELSE LET pts   == ClaimedPoints(arg.metrics, arg.hr)
                 total == pts[1] + pts[2] + pts[3] + pts[4] + pts[5]
                 \* 0 -> 1, 1..2 -> 2, 3..4 -> 3, 5..6 -> 4, 7.. -> 5
                 rank  == IF total >= 7 THEN 5 ELSE (total + 3) \div 2
             IN  /\ \A i \in 1..5 : pts[i] \in 0..3
                 /\ total \in 0..10
                 /\ "level" \in DOMAIN ret
                 /\ ret.level = LevelOrder[rank]

\* All five measurements give their most points (10 in all) and the level
\* is high.
C16_Witness ==
    /\ fn = "analyzeEmotionalState"
    /\ pc = "done"
    /\ arg.metrics # Null
    /\ ClaimedPoints(arg.metrics, arg.hr) = <<3, 2, 1, 2, 2>>
    /\ ret.level = "high"

====
